---- MODULE Spec2Model ----
(***************************************************************************)
(* The todo-list widget of js-playground, in its four iterations:          *)
(*   "index"  src/src/index.js                 add / delete                *)
(*   "first"  src/unnamed/part_002, 1st IIFE   add / delete                *)
(*   "state"  src/unnamed/part_002, 2nd IIFE   add / update / edit / delete*)
(*   "hooks"  src/unnamed/part_001 (useState)  add / update / edit / delete*)
(* A text is a sequence of one-character strings; an element identity      *)
(* `delete-todo-${index}` is the tuple <<"delete-todo", index>>.           *)
(***************************************************************************)
EXTENDS Integers, Sequences, FiniteSets, TLC

\* Longest Todo List the model lets the user build.
MaxTodos == 3

\* Largest number a State Container is given to hold.
MaxValue == 3

\* The texts the user types into #todo-input.
Texts ==
    { <<>>, <<" ">>, <<"a">>, <<" ", "a">>, <<"a", " ">>, <<"b">>,
      <<"a", " ", "b">> }

\* The four iterations of the widget.
Iterations == {"index", "first", "state", "hooks"}

\* The iterations that have an Edit Cursor.
EditCapable == {"state", "hooks"}

\* The Edit Cursor's sentinel: no todo is being edited.
NoEdit == -1

\* A JavaScript undefined (the value, or a read of a hole or past the end).
Undefined == <<"undefined">>

\* An array index below the length that holds no element.
Hole == <<"hole">>

-----------------------------------------------------------------------------
\* JavaScript built-ins, as the handlers use them.

RECURSIVE TrimStart(_)
TrimStart(s) ==
    IF s # <<>> /\ Head(s) = " " THEN TrimStart(Tail(s)) ELSE s

RECURSIVE TrimEnd(_)
TrimEnd(s) ==
    IF s # <<>> /\ s[Len(s)] = " "
    THEN TrimEnd(SubSeq(s, 1, Len(s) - 1))
    ELSE s

\* String.prototype.trim
trim(s) == TrimEnd(TrimStart(s))

\* if (todoText): a string is truthy when it is not empty.
Truthy(s) == s # <<>>

\* arr[index], 0-based; undefined outside the array and at a hole.
Item(arr, index) ==
    IF index + 1 \in DOMAIN arr /\ arr[index + 1] # Hole
    THEN arr[index + 1]
    ELSE Undefined

\* [...arr]: a new array of the same length, undefined where arr has a hole.
Spread(arr) ==
    [k \in DOMAIN arr |-> IF arr[k] = Hole THEN Undefined ELSE arr[k]]

\* arr.push(v)
push(arr, v) == Append(arr, v)

\* Mutant of splice: arr.splice(index), which drops everything from index on.
spliceToEnd(arr, index) ==
    IF index + 1 \in DOMAIN arr THEN SubSeq(arr, 1, index) ELSE arr

\* arr.splice(index, 1): the element at index leaves, the later ones move up.
splice(arr, index) ==
    IF index + 1 \in DOMAIN arr
    THEN SubSeq(arr, 1, index) \o SubSeq(arr, index + 2, Len(arr))
    ELSE arr

RECURSIVE FilterFrom(_, _, _)
FilterFrom(prev, i, index) ==
    IF i >= Len(prev) THEN <<>>
    ELSE (IF i # index /\ prev[i + 1] # Hole THEN <<prev[i + 1]>> ELSE <<>>)
         \o FilterFrom(prev, i + 1, index)

\* prev.filter((_, i) => i !== index); filter does not visit a hole.
filter(prev, index) == FilterFrom(prev, 0, index)

\* arr[index] = v on an array; an index past the end leaves holes before it.
AssignAt(arr, index, v) ==
    IF index < 0 THEN arr
    ELSE [k \in 1..(IF index + 1 > Len(arr) THEN index + 1 ELSE Len(arr)) |->
            IF k = index + 1 THEN v
            ELSE IF k <= Len(arr) THEN arr[k] ELSE Hole]

\* The decimal digit of d, 0 <= d <= 9.
Digit(d) == <<"0", "1", "2", "3", "4", "5", "6", "7", "8", "9">>[d + 1]

\* Number.prototype.toString of a non-negative integer: its decimal digits.
RECURSIVE NumberToString(_)
NumberToString(n) ==
    IF n < 10 THEN <<Digit(n)>>
    ELSE NumberToString(n \div 10) \o <<Digit(n % 10)>>

-----------------------------------------------------------------------------
\* Element identities.

AddId == <<"add-todo-button">>
InputId == <<"todo-input">>
ContainerId == <<"todo-container">>
ListId == <<"todo-list">>
TodoId(index) == <<"todo", index>>
DeleteId(index) == <<"delete-todo", index>>
EditId(index) == <<"edit-todo", index>>

-----------------------------------------------------------------------------
\* The view builders.  A view is the subtree render attaches under #root:
\* the input field (newly built, so with no text), the action button, the
\* item rows in list order, the placeholder rows of the list section and,
\* in the useState iteration, the value of the statistics section.

\* A newly built <input id="todo-input">: createElement sets its attributes,
\* never its value.
NewInput(placeholder) ==
    [id |-> InputId, placeholder |-> placeholder, value |-> <<>>]

\* src/src/index.js: no placeholder row is ever built.
todoComponentIndex(ts) ==
    [ input  |-> NewInput("Add a new todo..."),
      button |-> [id |-> AddId, text |-> "Add Todo"],
      rows   |-> [k \in 1..Len(ts) |->
                    [ span   |-> [id |-> TodoId(k - 1), text |-> ts[k]],
                      delete |-> DeleteId(k - 1) ]],
      empty  |-> <<>> ]

\* Mutant of todoComponentFirst: the placeholder row is not built.
todoComponentFirstNoPlaceholder(ts) ==
    [ input  |-> NewInput("Add a new todo..."),
      button |-> [id |-> AddId, text |-> "Add Todo"],
      rows   |-> [k \in 1..Len(ts) |->
                    [ span   |-> [id |-> TodoId(k - 1), text |-> ts[k]],
                      delete |-> DeleteId(k - 1) ]],
      empty  |-> <<>> ]

\* src/unnamed/part_002, first IIFE.
todoComponentFirst(ts) ==
    [ input  |-> NewInput("Add a new todo..."),
      button |-> [id |-> AddId, text |-> "Add Todo"],
      rows   |-> [k \in 1..Len(ts) |->
                    [ span   |-> [id |-> TodoId(k - 1), text |-> ts[k]],
                      delete |-> DeleteId(k - 1) ]],
      empty  |-> IF Len(ts) = 0
                 THEN <<"No todos available. Add a new todo!">>
                 ELSE <<>> ]

\* src/unnamed/part_002, second IIFE.
todoComponentState(ts, ei) ==
    [ input  |-> NewInput(IF ei # NoEdit THEN "Edit your todo..."
                                         ELSE "Add a new todo..."),
      button |-> [id |-> AddId,
                  text |-> IF ei # NoEdit THEN "Update Todo" ELSE "Add Todo"],
      rows   |-> [k \in 1..Len(ts) |->
                    [ span   |-> [id |-> TodoId(k - 1), text |-> ts[k]],
                      delete |-> DeleteId(k - 1),
                      edit   |-> EditId(k - 1) ]],
      empty  |-> IF Len(ts) = 0
                 THEN <<"No todos available. Add a new todo!">>
                 ELSE <<>> ]

\* src/unnamed/part_001.
todoComponentHooks(ts, ei) ==
    [ input  |-> NewInput(IF ei # NoEdit THEN "Edit your todo..."
                                         ELSE "Add a new todo..."),
      button |-> [id |-> AddId,
                  text |-> IF ei # NoEdit THEN "Update Todo" ELSE "Add Todo"],
      rows   |-> [k \in 1..Len(ts) |->
                    [ span   |-> [id |-> TodoId(k - 1), text |-> ts[k]],
                      edit   |-> EditId(k - 1),
                      delete |-> DeleteId(k - 1) ]],
      empty  |-> IF Len(ts) = 0
                 THEN <<"No todos available. Add a new todo!">>
                 ELSE <<>>,
      stats  |-> NumberToString(Len(ts)) ]

-----------------------------------------------------------------------------
\* A click handler runs on a record st:
\*   todos, editIndex  the stored state
\*   value             the text of `input`, the element the handler found by
\*                     #todo-input when it started
\*   detached          whether a render has replaced that element
\*   dom               the children of the mount element
\*   renders           what each render of this handler read from the state
\*   root              whether document.querySelector('#root') finds the
\*                     mount element
\*   thrown            the error that ended the handler, "none" while it runs

\* No error has been raised.
Running(st) == st.thrown = "none"

\* throw: the handler ends here, and what it has stored stays stored.
Throw(st, error) == [st EXCEPT !.thrown = error]

\* input.value = text, a statement of the handler.
SetValue(st, text) ==
    IF Running(st) THEN [st EXCEPT !.value = text] ELSE st

\* What a render reads: getTodos() and getEditIndex() (or todos, state).
Snapshot(st) == [todos |-> st.todos, editIndex |-> st.editIndex]

\* root.innerHTML = '': #root keeps no child.
ClearRoot(children) == <<>>

\* root.appendChild(node): node becomes the last child.
appendChild(children, node) == Append(children, node)

\* render: root.innerHTML = '' detaches every element of the previous view,
\* the handler's `input` among them, and the new view is attached.  dom is
\* the sequence of the mount element's children.  Without #root the three
\* later iterations throw before they touch anything.
\* Mutant of renderIndex: without #root the whole body is skipped.
renderIndexSilent(st) ==
    IF ~Running(st) \/ ~st.root THEN st
    ELSE [st EXCEPT !.dom = appendChild(ClearRoot(st.dom), todoComponentIndex(st.todos)),
                    !.detached = TRUE,
                    !.renders = Append(@, Snapshot(st))]

\* Mutant of renderIndex: the new view is attached around the input field
\* the page already has.
renderIndexKeepsInput(st) ==
    IF ~Running(st) THEN st
    ELSE IF ~st.root
    THEN Throw([st EXCEPT !.renders = Append(@, Snapshot(st))], "TypeError")
    ELSE [st EXCEPT !.dom = appendChild(ClearRoot(st.dom), todoComponentIndex(st.todos)),
                    !.renders = Append(@, Snapshot(st))]

\* src/src/index.js: only the clearing tests root; without #root the view is
\* built and root.appendChild then raises a TypeError on null.
renderIndex(st) ==
    IF ~Running(st) THEN st
    ELSE IF ~st.root
    THEN Throw([st EXCEPT !.renders = Append(@, Snapshot(st))], "TypeError")
    ELSE [st EXCEPT !.dom = appendChild(ClearRoot(st.dom), todoComponentIndex(st.todos)),
                    !.detached = TRUE,
                    !.renders = Append(@, Snapshot(st))]

renderFirst(st) ==
    IF ~Running(st) THEN st
    ELSE IF ~st.root THEN Throw(st, "Error")
    ELSE [st EXCEPT !.dom = appendChild(ClearRoot(st.dom), todoComponentFirst(st.todos)),
                    !.detached = TRUE,
                    !.renders = Append(@, Snapshot(st))]

renderState(st) ==
    IF ~Running(st) THEN st
    ELSE IF ~st.root THEN Throw(st, "Error")
    ELSE [st EXCEPT !.dom = appendChild(ClearRoot(st.dom), todoComponentState(st.todos, st.editIndex)),
                    !.detached = TRUE,
                    !.renders = Append(@, Snapshot(st))]

\* Mutant of renderHooks: #root is not cleared before the view is attached.
renderHooksNoClear(st) ==
    IF ~Running(st) THEN st
    ELSE IF ~st.root THEN Throw(st, "Error")
    ELSE [st EXCEPT !.dom = appendChild(st.dom, todoComponentHooks(st.todos, st.editIndex)),
                    !.detached = TRUE,
                    !.renders = Append(@, Snapshot(st))]

renderHooks(st) ==
    IF ~Running(st) THEN st
    ELSE IF ~st.root THEN Throw(st, "Error")
    ELSE [st EXCEPT !.dom = appendChild(ClearRoot(st.dom), todoComponentHooks(st.todos, st.editIndex)),
                    !.detached = TRUE,
                    !.renders = Append(@, Snapshot(st))]

-----------------------------------------------------------------------------
\* The State Container, useState (src/unnamed/part_001).  A JavaScript value
\* is a record with its typeof in `type`: a number carries `val`, a function
\* carries `call`, the function from its argument to its result.

\* The numbers a container holds.
Values == 0..MaxValue

Number(n) == [type |-> "number", val |-> n, call |-> <<>>]
Function(f) == [type |-> "function", val |-> 0, call |-> f]
NotGiven == [type |-> "undefined", val |-> 0, call |-> <<>>]
NotAFunction == [type |-> "string", val |-> 0, call |-> <<>>]

\* What a caller passes as newVal: a number, or a function of the current
\* value (prev => prev + 1 within Values, prev => 0, prev => prev).
NewVals ==
    {Number(n) : n \in Values}
    \cup {Function([prev \in Values |-> (prev + 1) % (MaxValue + 1)]),
          Function([prev \in Values |-> 0]),
          Function([prev \in Values |-> prev])}

\* What a caller passes as renderFn: a function, nothing, or something that
\* is no function.
RenderFns == {Function(<<>>), NotGiven, NotAFunction}

\* The instances useState has built.
Instances == {"a", "b"}

\* useState(initialVal, renderFn): the closure's value and renderFn.
useState(initialVal, renderFn) ==
    [initialVal |-> initialVal, value |-> initialVal, renderFn |-> renderFn]

\* getState of instance id.
getState(cs, id) == cs[id].value

\* renderFn && ...: undefined is falsy, a function or a non-empty string is not.
IsTruthy(v) == v.type # "undefined"

\* The outcome of one setter call: the containers after it, the callback
\* invocations it made (the arguments passed and what every getter returns
\* inside the callback), the warnings it printed and whether it raised.
Outcome(cs, calls, warned, threw) ==
    [containers |-> cs, calls |-> calls, warned |-> warned, threw |-> threw]

\* renderFn(): the callback runs with no argument and reads the getters.
Invoke(cs) == [args |-> <<>>, seen |-> [i \in Instances |-> getState(cs, i)]]

\* Mutant of setState: a function is applied to the initial value, not to
\* the current one.
setStateStale(cs, id, newVal) ==
    LET value  == IF newVal.type = "function"
                  THEN newVal.call[cs[id].initialVal]
                  ELSE newVal.val
        stored == [cs EXCEPT ![id].value = value]
    IN  IF IsTruthy(cs[id].renderFn) /\ cs[id].renderFn.type = "function"
        THEN Outcome(stored, <<Invoke(stored)>>, 0, FALSE)
        ELSE Outcome(stored, <<>>, 1, FALSE)

\* Mutant of setState: the callback runs before the value is stored.
setStateCallbackFirst(cs, id, newVal) ==
    LET value  == IF newVal.type = "function"
                  THEN newVal.call[cs[id].value]
                  ELSE newVal.val
        stored == [cs EXCEPT ![id].value = value]
    IN  IF IsTruthy(cs[id].renderFn) /\ cs[id].renderFn.type = "function"
        THEN Outcome(stored, <<Invoke(cs)>>, 0, FALSE)
        ELSE Outcome(stored, <<>>, 1, FALSE)

\* Mutant of setState: `value` is one variable shared by every instance.
setStateShared(cs, id, newVal) ==
    LET value  == IF newVal.type = "function"
                  THEN newVal.call[cs[id].value]
                  ELSE newVal.val
        stored == [i \in Instances |-> [cs[i] EXCEPT !.value = value]]
    IN  IF IsTruthy(cs[id].renderFn) /\ cs[id].renderFn.type = "function"
        THEN Outcome(stored, <<Invoke(stored)>>, 0, FALSE)
        ELSE Outcome(stored, <<>>, 1, FALSE)

\* Mutant of setState: renderFn() is called untested, which raises a
\* TypeError when renderFn is no function.
setStateUnchecked(cs, id, newVal) ==
    LET value  == IF newVal.type = "function"
                  THEN newVal.call[cs[id].value]
                  ELSE newVal.val
        stored == [cs EXCEPT ![id].value = value]
    IN  IF cs[id].renderFn.type = "function"
        THEN Outcome(stored, <<Invoke(stored)>>, 0, FALSE)
        ELSE Outcome(stored, <<>>, 0, TRUE)

\* setState(newVal) of instance id.
setState(cs, id, newVal) ==
    LET value  == IF newVal.type = "function"
                  THEN newVal.call[cs[id].value]
                  ELSE newVal.val
        stored == [cs EXCEPT ![id].value = value]
    IN  IF IsTruthy(cs[id].renderFn) /\ cs[id].renderFn.type = "function"
        THEN Outcome(stored, <<Invoke(stored)>>, 0, FALSE)
        ELSE Outcome(stored, <<>>, 1, FALSE)

-----------------------------------------------------------------------------
\* The useState iteration (src/unnamed/part_001).  getTodos/setTodos and
\* getEditIndex/setEditIndex are two containers built with render as renderFn.

\* Mutant of setTodos: the container was built without the render callback.
setTodosNoRender(st, newVal) ==
    IF Running(st) THEN [st EXCEPT !.todos = newVal] ELSE st

\* setTodos(newVal): the value is stored, then the render callback runs.
\* A caller that passes a function prev => f(prev) passes f(st.todos) here.
setTodos(st, newVal) ==
    IF Running(st) THEN renderHooks([st EXCEPT !.todos = newVal]) ELSE st

\* setEditIndex(newVal), likewise.
setEditIndex(st, newVal) ==
    IF Running(st) THEN renderHooks([st EXCEPT !.editIndex = newVal]) ELSE st

\* Mutant of AddUpdateHooks: the if (todoText) test is missing.
AddUpdateHooksNoCheck(st) ==
    LET todoText == trim(st.value)
        done ==
            IF st.editIndex # NoEdit
            THEN setEditIndex(
                     setTodos(st, AssignAt(Spread(st.todos), st.editIndex, todoText)),
                     NoEdit)
            ELSE setTodos(st, push(Spread(st.todos), todoText))
    IN  SetValue(done, <<>>)

\* Mutant of AddUpdateHooks: the input field is cleared only with the text
\* submitted.
AddUpdateHooksClearsInside(st) ==
    LET todoText == trim(st.value)
    IN  IF Truthy(todoText)
        THEN SetValue(
                 IF st.editIndex # NoEdit
                 THEN setEditIndex(
                          setTodos(st, AssignAt(Spread(st.todos), st.editIndex, todoText)),
                          NoEdit)
                 ELSE setTodos(st, push(Spread(st.todos), todoText)),
                 <<>>)
        ELSE st

\* The add/update branch.
AddUpdateHooks(st) ==
    LET todoText == trim(st.value)
        done ==
            IF Truthy(todoText)
            THEN IF st.editIndex # NoEdit
                 THEN setEditIndex(
                          setTodos(st, AssignAt(Spread(st.todos), st.editIndex, todoText)),
                          NoEdit)
                 ELSE setTodos(st, push(Spread(st.todos), todoText))
            ELSE st
    IN  SetValue(done, <<>>)

\* Mutant of DeleteHooks: the cursor is not decremented for an earlier row.
DeleteHooksNoShift(st, index) ==
    LET removed == setTodos(st, filter(st.todos, index))
    IN  IF removed.editIndex = index
        THEN SetValue(setEditIndex(removed, NoEdit), <<>>)
        ELSE removed

\* Mutant of DeleteHooks: the cursor is decremented for any other row.
DeleteHooksShiftsAlways(st, index) ==
    LET removed == setTodos(st, filter(st.todos, index))
    IN  IF removed.editIndex = index
        THEN SetValue(setEditIndex(removed, NoEdit), <<>>)
        ELSE IF removed.editIndex # NoEdit
             THEN setEditIndex(removed, removed.editIndex - 1)
             ELSE removed

\* The delete branch of the forEach callback.
DeleteHooks(st, index) ==
    LET removed == setTodos(st, filter(st.todos, index))
    IN  IF removed.editIndex = index
        THEN SetValue(setEditIndex(removed, NoEdit), <<>>)
        ELSE IF removed.editIndex > index
             THEN setEditIndex(removed, removed.editIndex - 1)
             ELSE removed

\* Mutant of EditHooks: the edit control of the row being edited ends the
\* edit.
EditHooksToggles(st, index) ==
    LET set == setEditIndex(st, IF st.editIndex = index THEN NoEdit ELSE index)
    IN  SetValue(set, Item(set.todos, index))

\* The edit branch of the forEach callback.
EditHooks(st, index) ==
    LET set == setEditIndex(st, index)
    IN  SetValue(set, Item(set.todos, index))

\* The forEach callback for one index.
CallbackHooks(st, index, target) ==
    LET deleted == IF target = DeleteId(index) THEN DeleteHooks(st, index) ELSE st
    IN  IF Running(deleted) /\ target = EditId(index)
        THEN EditHooks(deleted, index)
        ELSE deleted

\* getTodos().forEach(...): over the array getTodos() returned, which no
\* setter changes (filter and the spread build new arrays).  forEach does
\* not visit a hole, and an error in the callback ends it.
RECURSIVE ForEachHooks(_, _, _, _)
ForEachHooks(st, arr, index, target) ==
    IF index >= Len(arr) \/ ~Running(st) THEN st
    ELSE ForEachHooks(
             IF arr[index + 1] # Hole THEN CallbackHooks(st, index, target) ELSE st,
             arr, index + 1, target)

\* Mutant of ClickHooks: the add/update branch does not test the target.
ClickHooksAlwaysAdds(st, target) ==
    LET added == AddUpdateHooks(st)
    IN  ForEachHooks(added, added.todos, 0, target)

\* The click listener.
ClickHooks(st, target) ==
    LET added == IF target = AddId THEN AddUpdateHooks(st) ELSE st
    IN  ForEachHooks(added, added.todos, 0, target)

-----------------------------------------------------------------------------
\* The state-object iteration (src/unnamed/part_002, second IIFE).  `todos`
\* is an alias of state.todos: one array, changed in place.

\* Mutant of AddUpdateState: the text is pushed also while an edit is active.
AddUpdateStatePushes(st) ==
    LET todoText == trim(st.value)
        done ==
            IF Truthy(todoText)
            THEN [st EXCEPT !.todos = push(st.todos, todoText)]
            ELSE st
    IN  renderState([done EXCEPT !.value = <<>>])

\* Mutant of AddUpdateState: the text is stored as typed.
AddUpdateStateUntrimmed(st) ==
    LET todoText == trim(st.value)
        done ==
            IF Truthy(todoText)
            THEN IF st.editIndex # NoEdit
                 THEN [st EXCEPT !.todos = AssignAt(st.todos, st.editIndex, st.value),
                                 !.editIndex = NoEdit]
                 ELSE [st EXCEPT !.todos = push(st.todos, st.value)]
            ELSE st
    IN  renderState([done EXCEPT !.value = <<>>])

\* The add/update branch.
AddUpdateState(st) ==
    LET todoText == trim(st.value)
        done ==
            IF Truthy(todoText)
            THEN IF st.editIndex # NoEdit
                 THEN [st EXCEPT !.todos = AssignAt(st.todos, st.editIndex, todoText),
                                 !.editIndex = NoEdit]
                 ELSE [st EXCEPT !.todos = push(st.todos, todoText)]
            ELSE st
    IN  renderState([done EXCEPT !.value = <<>>])

\* Mutant of DeleteState: deleting the edited row does not reset the cursor.
DeleteStateNoReset(st, index) ==
    LET removed == [st EXCEPT !.todos = splice(st.todos, index)]
        adjusted ==
            IF removed.editIndex > index
            THEN [removed EXCEPT !.editIndex = removed.editIndex - 1]
            ELSE removed
    IN  renderState(adjusted)

\* Mutant of DeleteState: render runs before the cursor is adjusted.
DeleteStateRendersFirst(st, index) ==
    LET removed == renderState([st EXCEPT !.todos = splice(st.todos, index)])
    IN  IF removed.editIndex = index
        THEN [removed EXCEPT !.editIndex = NoEdit, !.value = <<>>]
        ELSE IF removed.editIndex > index
             THEN [removed EXCEPT !.editIndex = removed.editIndex - 1]
             ELSE removed

\* The delete branch of the forEach callback.
DeleteState(st, index) ==
    LET removed == [st EXCEPT !.todos = splice(st.todos, index)]
        adjusted ==
            IF removed.editIndex = index
            THEN [removed EXCEPT !.editIndex = NoEdit, !.value = <<>>]
            ELSE IF removed.editIndex > index
                 THEN [removed EXCEPT !.editIndex = removed.editIndex - 1]
                 ELSE removed
    IN  renderState(adjusted)

\* The edit branch of the forEach callback.
EditState(st, index) ==
    renderState([st EXCEPT !.editIndex = index,
                           !.value = Item(st.todos, index)])

\* The forEach callback for one index.
CallbackState(st, index, target) ==
    LET deleted == IF target = DeleteId(index) THEN DeleteState(st, index) ELSE st
    IN  IF Running(deleted) /\ target = EditId(index)
        THEN EditState(deleted, index)
        ELSE deleted

\* todos.forEach(...): the range is the length at the call; an index the
\* array no longer has when its turn comes is skipped.
RECURSIVE ForEachState(_, _, _, _)
ForEachState(st, len, index, target) ==
    IF index >= len \/ ~Running(st) THEN st
    ELSE ForEachState(
             IF index < Len(st.todos) /\ st.todos[index + 1] # Hole
             THEN CallbackState(st, index, target)
             ELSE st,
             len, index + 1, target)

\* The click listener.
ClickState(st, target) ==
    LET added == IF target = AddId THEN AddUpdateState(st) ELSE st
    IN  ForEachState(added, Len(added.todos), 0, target)

-----------------------------------------------------------------------------
\* The first iteration of src/unnamed/part_002 (first IIFE): add and delete.

\* The add branch: the trimmed text is pushed whatever it is.
AddFirst(st) ==
    renderFirst([st EXCEPT !.todos = push(st.todos, trim(st.value)),
                           !.value = <<>>])

\* The forEach callback for one index.
CallbackFirst(st, index, target) ==
    IF target = DeleteId(index)
    THEN renderFirst([st EXCEPT !.todos = splice(st.todos, index)])
    ELSE st

RECURSIVE ForEachFirst(_, _, _, _)
ForEachFirst(st, len, index, target) ==
    IF index >= len \/ ~Running(st) THEN st
    ELSE ForEachFirst(
             IF index < Len(st.todos) /\ st.todos[index + 1] # Hole
             THEN CallbackFirst(st, index, target)
             ELSE st,
             len, index + 1, target)

\* The click listener.
ClickFirst(st, target) ==
    LET added == IF target = AddId THEN AddFirst(st) ELSE st
    IN  ForEachFirst(added, Len(added.todos), 0, target)

-----------------------------------------------------------------------------
\* src/src/index.js: add and delete.

\* Mutant of AddIndex: the text is pushed untrimmed.
AddIndexUntrimmed(st) ==
    renderIndex([st EXCEPT !.todos = push(st.todos, st.value),
                           !.value = <<>>])

\* The add branch: the trimmed text is pushed whatever it is.
AddIndex(st) ==
    renderIndex([st EXCEPT !.todos = push(st.todos, trim(st.value)),
                           !.value = <<>>])

\* The forEach callback for one index.
CallbackIndex(st, index, target) ==
    IF target = DeleteId(index)
    THEN renderIndex([st EXCEPT !.todos = splice(st.todos, index)])
    ELSE st

RECURSIVE ForEachIndex(_, _, _, _)
ForEachIndex(st, len, index, target) ==
    IF index >= len \/ ~Running(st) THEN st
    ELSE ForEachIndex(
             IF index < Len(st.todos) /\ st.todos[index + 1] # Hole
             THEN CallbackIndex(st, index, target)
             ELSE st,
             len, index + 1, target)

\* The click listener.
ClickIndex(st, target) ==
    LET added == IF target = AddId THEN AddIndex(st) ELSE st
    IN  ForEachIndex(added, Len(added.todos), 0, target)

-----------------------------------------------------------------------------
\* The Element Builder and the Style Serializer (createElement and
\* extractStyle, the same in every iteration).  A child argument is a record
\* with its typeof in `type`: a string carries `text`, a node carries its
\* `kind`, its `name` (which node it is) and, a document fragment, the nodes
\* it holds in `content`.

\* parts.join(sep)
RECURSIVE Join(_, _)
Join(parts, sep) ==
    IF parts = <<>> THEN <<>>
    ELSE IF Len(parts) = 1 THEN parts[1]
    ELSE parts[1] \o sep \o Join(Tail(parts), sep)

RECURSIVE SplitFrom(_, _, _)
SplitFrom(s, sep, piece) ==
    IF s = <<>> THEN <<piece>>
    ELSE IF Head(s) = sep
    THEN <<piece>> \o SplitFrom(Tail(s), sep, <<>>)
    ELSE SplitFrom(Tail(s), sep, Append(piece, Head(s)))

\* s.split(sep) for a separator of one character.
split(s, sep) == SplitFrom(s, sep, <<>>)

\* Mutant of extractStyle: every fragment is closed by the separator.
extractStyleClosing(entries) ==
    Join([k \in DOMAIN entries |->
            entries[k][1] \o <<":", " ">> \o entries[k][2] \o <<";">>], <<>>)

\* extractStyle(entries): `${key}: ${value}` of every pair, joined by ';'.
extractStyle(entries) ==
    Join([k \in DOMAIN entries |->
            entries[k][1] \o <<":", " ">> \o entries[k][2]], <<";">>)

StringChild(text) ==
    [type |-> "string", kind |-> "", name |-> "", text |-> text, content |-> <<>>]
ElementNode(name) ==
    [type |-> "object", kind |-> "element", name |-> name, text |-> <<>>,
     content |-> <<>>]
FragmentNode(name, content) ==
    [type |-> "object", kind |-> "fragment", name |-> name, text |-> <<>>,
     content |-> content]
NumberChild ==
    [type |-> "number", kind |-> "", name |-> "", text |-> <<>>, content |-> <<>>]
UndefinedChild ==
    [type |-> "undefined", kind |-> "", name |-> "", text |-> <<>>, content |-> <<>>]

\* document.createTextNode(text): a new text leaf.
createTextNode(text) ==
    [type |-> "object", kind |-> "text", name |-> "", text |-> text,
     content |-> <<>>]

\* child instanceof Node
IsNode(child) == child.kind \in {"element", "fragment", "text"}

\* document.createElement(tagName): an element with nothing set.
NewElement(tagName) ==
    [tag |-> tagName, classList |-> <<>>, cssText |-> <<>>, dataset |-> <<>>,
     attrs |-> <<>>, children |-> <<>>]

\* classList.add(...tokens): a token the list has already is not added again.
RECURSIVE AddTokens(_, _)
AddTokens(list, tokens) ==
    IF tokens = <<>> THEN list
    ELSE AddTokens(IF \E k \in DOMAIN list : list[k] = Head(tokens)
                   THEN list
                   ELSE Append(list, Head(tokens)),
                   Tail(tokens))

\* One turn of the loop over Object.entries(attributes).
SetAttribute(element, attribute) ==
    CASE attribute.key = "class" ->
           [element EXCEPT !.classList = AddTokens(@, split(attribute.text, " "))]
      [] attribute.key = "style" ->
           [element EXCEPT !.cssText = extractStyle(attribute.entries)]
      [] attribute.key = "dataset" ->
           [element EXCEPT !.dataset = @ \o attribute.entries]
      [] OTHER ->
           [element EXCEPT !.attrs = Append(@, <<attribute.key, attribute.text>>)]

RECURSIVE SetAttributes(_, _)
SetAttributes(element, attributes) ==
    IF attributes = <<>> THEN element
    ELSE SetAttributes(SetAttribute(element, Head(attributes)), Tail(attributes))

\* The children without the node: a node has one parent and one place.
RECURSIVE Without(_, _)
Without(children, node) ==
    IF children = <<>> THEN <<>>
    ELSE (IF Head(children) = node THEN <<>> ELSE <<Head(children)>>)
         \o Without(Tail(children), node)

\* element.appendChild(node) while createElement builds b.node.  A text
\* leaf is one createTextNode has just made, a child of nothing yet.  An
\* element that is a child already moves to the end; a document fragment
\* gives up the nodes it holds and stays out, empty from then on.
appendNode(b, node) ==
    CASE node.kind = "text" ->
           [b EXCEPT !.node.children = Append(@, node)]
      [] node.kind = "fragment" ->
           IF node.name \in b.emptied
           THEN b
           ELSE [b EXCEPT !.node.children = @ \o node.content,
                          !.emptied = @ \cup {node.name}]
      [] OTHER ->
           [b EXCEPT !.node.children = Append(Without(@, node), node)]

\* Mutant of AppendChild: a child that is neither a string nor a node is
\* passed over.
AppendChildLenient(b, child) ==
    IF child.type = "string"
    THEN appendNode(b, createTextNode(child.text))
    ELSE IF IsNode(child)
    THEN appendNode(b, child)
    ELSE b

\* One turn of the loop over children.
AppendChild(b, child) ==
    IF child.type = "string"
    THEN appendNode(b, createTextNode(child.text))
    ELSE IF IsNode(child)
    THEN appendNode(b, child)
    ELSE [b EXCEPT !.thrown = "TypeError"]

RECURSIVE AppendChildren(_, _)
AppendChildren(b, children) ==
    IF children = <<>> \/ b.thrown # "none" THEN b
    ELSE AppendChildren(AppendChild(b, Head(children)), Tail(children))

\* createElement(tagName, attributes, ...children): what it returns (nothing
\* when it throws) and the error it raises.
createElement(tagName, attributes, children) ==
    LET element == SetAttributes(NewElement(tagName), attributes)
        b == AppendChildren(
                 [node |-> element, emptied |-> {}, thrown |-> "none"],
                 children)
    IN  [ returned |-> IF b.thrown = "none" THEN <<b.node>> ELSE <<>>,
          thrown |-> b.thrown ]

\* Neither builder has been called.
NoBuild ==
    [ fn |-> "none", tagName |-> "", attributes |-> <<>>, children |-> <<>>,
      entries |-> <<>>, returned |-> <<>>, thrown |-> "none",
      called |-> FALSE ]

-----------------------------------------------------------------------------
\* The page.

VARIABLES
    iter,        \* which iteration the page loaded
    todos,       \* the Todo List
    editIndex,   \* the Edit Cursor (NoEdit throughout in "index" and "first")
    dom,         \* the children of #root: the attached views
    inputValue,  \* the text of the #todo-input attached under #root
    renders,     \* what each render of the last handler read from the state
    last,        \* the last user action, with the state and the children
                 \* of #root it started from
    submitted,   \* the trimmed texts submitted so far, while every click so
                 \* far was an add click with non-empty trimmed text
    root,        \* whether the document has an element with id root
    step,        \* how many steps of the Scenario the clicks so far have
                 \* followed, Astray once a click left it
    containers,  \* the State Containers exercised on their own
    setCall,     \* the last setter call on them, with what it started from
                 \* and its outcome
    built        \* the last call of createElement or extractStyle

\* The page's variables, those of the containers exercised on their own, and
\* that of the builders exercised on their own.
pageVars == <<iter, todos, editIndex, dom, inputValue, renders, last, submitted,
              root, step>>
containerVars == <<containers, setCall>>
builderVars == <<built>>

vars == <<iter, todos, editIndex, dom, inputValue, renders, last, submitted,
          root, step, containers, setCall, built>>

\* The view of an iteration for a state.
View(it, ts, ei) ==
    CASE it = "index" -> todoComponentIndex(ts)
      [] it = "first" -> todoComponentFirst(ts)
      [] it = "state" -> todoComponentState(ts, ei)
      [] it = "hooks" -> todoComponentHooks(ts, ei)

\* render of an iteration.
Render(it, st) ==
    CASE it = "index" -> renderIndex(st)
      [] it = "first" -> renderFirst(st)
      [] it = "state" -> renderState(st)
      [] it = "hooks" -> renderHooks(st)

\* document.querySelector('#todo-input'): the first input field in #root.
QueryInput(children) == children[1].input

\* The identities a click inside #root can carry: those of the elements of
\* the attached views.
Targets ==
    {AddId, InputId, ContainerId, ListId}
    \cup UNION {
        {dom[c].rows[k].span.id : k \in DOMAIN dom[c].rows}
        \cup {dom[c].rows[k].delete : k \in DOMAIN dom[c].rows}
        \cup (IF iter \in EditCapable
              THEN {dom[c].rows[k].edit : k \in DOMAIN dom[c].rows}
              ELSE {})
        : c \in DOMAIN dom }

\* The record a handler starts from: `input` is the attached #todo-input.
Start ==
    [ todos |-> todos, editIndex |-> editIndex, value |-> inputValue,
      detached |-> FALSE, dom |-> dom, renders |-> <<>>,
      root |-> root, thrown |-> "none" ]

\* The texts of the Scenario.
BuyMilk == <<"B", "u", "y", " ", "m", "i", "l", "k">>
WalkDog == <<"W", "a", "l", "k", " ", "d", "o", "g">>
BuyBread == <<"B", "u", "y", " ", "b", "r", "e", "a", "d">>
ScenarioTexts == {<<>>, BuyMilk, WalkDog, BuyBread}

\* The Scenario: the clicks, each with the text the input field holds.
Scenario ==
    << [target |-> AddId, text |-> BuyMilk],
       [target |-> AddId, text |-> WalkDog],
       [target |-> EditId(0), text |-> <<>>],
       [target |-> AddId, text |-> BuyBread],
       [target |-> DeleteId(1), text |-> <<>>] >>

\* The clicks so far are not the first clicks of the Scenario.
Astray == Len(Scenario) + 1

\* No setter call yet.
NoCall ==
    [ op |-> "none", id |-> "a", newVal |-> NotGiven,
      before |-> <<>>, calls |-> <<>>, warned |-> 0, threw |-> FALSE ]

\* The page as loaded.
PageLoaded ==
    /\ todos = <<>>
    /\ editIndex = NoEdit
    /\ dom = appendChild(<<>>, View(iter, <<>>, NoEdit))
    /\ inputValue = <<>>
    /\ renders = <<Snapshot([todos |-> <<>>, editIndex |-> NoEdit])>>
    /\ last = [op |-> "load", target |-> <<>>, text |-> <<>>,
               todos |-> <<>>, editIndex |-> NoEdit, dom |-> <<>>,
               root |-> TRUE, thrown |-> "none"]
    /\ submitted = <<>>
    /\ root = TRUE

\* After DOMContentLoaded: the state as constructed and the first render.
Init ==
    /\ iter \in Iterations
    /\ containers = [i \in Instances |-> useState(0, NotGiven)]
    /\ setCall = NoCall
    /\ built = NoBuild
    /\ step = Astray
    /\ PageLoaded

\* The user types text into the attached input field.
TypeText(text) ==
    /\ text # inputValue
    /\ inputValue' = text
    /\ last' = [op |-> "type", target |-> InputId, text |-> text,
                todos |-> todos, editIndex |-> editIndex, dom |-> dom,
                root |-> root, thrown |-> "none"]
    /\ UNCHANGED <<iter, todos, editIndex, dom, renders, submitted, root, step>>
    /\ UNCHANGED containerVars
    /\ UNCHANGED builderVars

\* A click with the given identity, handled to completion; done is the
\* handler's final record.
Complete(target, done) ==
    /\ Len(done.todos) <= MaxTodos
    /\ todos' = done.todos
    /\ editIndex' = done.editIndex
    /\ dom' = done.dom
    /\ inputValue' = IF done.detached THEN QueryInput(done.dom).value
                                       ELSE done.value
    /\ renders' = done.renders
    /\ last' = [op |-> "click", target |-> target, text |-> inputValue,
                todos |-> todos, editIndex |-> editIndex, dom |-> dom,
                root |-> root, thrown |-> done.thrown]
    /\ submitted' =
         IF /\ target = AddId
            /\ Truthy(trim(inputValue))
            /\ submitted # <<Undefined>>
         THEN Append(submitted, trim(inputValue))
         ELSE <<Undefined>>
    /\ step' =
         IF /\ step < Len(Scenario)
            /\ Scenario[step + 1] = [target |-> target, text |-> inputValue]
         THEN step + 1
         ELSE Astray
    /\ UNCHANGED <<iter, root>>
    /\ UNCHANGED containerVars
    /\ UNCHANGED builderVars

ClickOnIndex(target) ==
    /\ iter = "index"
    /\ Complete(target, ClickIndex(Start, target))

ClickOnFirst(target) ==
    /\ iter = "first"
    /\ Complete(target, ClickFirst(Start, target))

ClickOnState(target) ==
    /\ iter = "state"
    /\ Complete(target, ClickState(Start, target))

ClickOnHooks(target) ==
    /\ iter = "hooks"
    /\ Complete(target, ClickHooks(Start, target))

Next ==
    \/ \E text \in Texts : TypeText(text)
    \/ \E target \in Targets : ClickOnIndex(target)
    \/ \E target \in Targets : ClickOnFirst(target)
    \/ \E target \in Targets : ClickOnState(target)
    \/ \E target \in Targets : ClickOnHooks(target)

Spec == Init /\ [][Next]_vars

-----------------------------------------------------------------------------
\* The State Containers on their own: two instances, built with any initial
\* value and any renderFn, and setter calls on them.

ContainerInit ==
    /\ iter = "hooks"
    /\ PageLoaded
    /\ containers \in [Instances -> {useState(v, f) : v \in {0, MaxValue},
                                                      f \in RenderFns}]
    /\ setCall = NoCall
    /\ built = NoBuild
    /\ step = Astray

\* setState(newVal) is called on instance id.
CallSetState(id, newVal) ==
    LET out == setState(containers, id, newVal)
    IN  /\ containers' = out.containers
        /\ setCall' = [ op |-> "set", id |-> id, newVal |-> newVal,
                        before |-> containers, calls |-> out.calls,
                        warned |-> out.warned, threw |-> out.threw ]
        /\ UNCHANGED pageVars
        /\ UNCHANGED builderVars

ContainerNext ==
    \E id \in Instances : \E newVal \in NewVals : CallSetState(id, newVal)

ContainerSpec == ContainerInit /\ [][ContainerNext]_vars

-----------------------------------------------------------------------------
\* The page whose mount element can stop being found: the element keeps its
\* click listener and its subtree, but document.querySelector('#root')
\* returns null from then on (the element lost its id, say).

\* The texts the user types here.
FaultTexts == {<<>>, <<"a">>}

RootVanishes ==
    /\ root
    /\ root' = FALSE
    /\ UNCHANGED <<iter, todos, editIndex, dom, inputValue, renders, last,
                   submitted, step>>
    /\ UNCHANGED containerVars
    /\ UNCHANGED builderVars

FaultNext ==
    \/ \E text \in FaultTexts : TypeText(text)
    \/ \E target \in Targets : ClickOnIndex(target)
    \/ \E target \in Targets : ClickOnFirst(target)
    \/ \E target \in Targets : ClickOnState(target)
    \/ \E target \in Targets : ClickOnHooks(target)
    \/ RootVanishes

FaultSpec == Init /\ [][FaultNext]_vars

-----------------------------------------------------------------------------
\* The useState iteration with the texts of the Scenario.

ScenarioInit ==
    /\ iter = "hooks"
    /\ containers = [i \in Instances |-> useState(0, NotGiven)]
    /\ setCall = NoCall
    /\ built = NoBuild
    /\ step = 0
    /\ PageLoaded

ScenarioNext ==
    \/ \E text \in ScenarioTexts : TypeText(text)
    \/ \E target \in Targets : ClickOnHooks(target)

ScenarioSpec == ScenarioInit /\ [][ScenarioNext]_vars

-----------------------------------------------------------------------------
\* The builders on their own: createElement and extractStyle called with
\* arguments of every kind.

\* Most children one call passes, and most pairs one style object has.
MaxChildren == 3
MaxEntries == 3

\* The sequences over S of length n at most.
SeqsUpTo(S, n) == UNION {[1..k -> S] : k \in 0..n}

Tags == {"div", "li"}

\* What a caller passes as a child: strings, two elements, a document
\* fragment that holds an element, and two values that are neither.
Children ==
    { StringChild(<<"x">>), StringChild(<<>>),
      ElementNode("e1"), ElementNode("e2"),
      FragmentNode("f1", <<ElementNode("e3")>>),
      NumberChild, UndefinedChild }

\* The pairs of a style object.
StyleEntries ==
    { <<property, value>> :
        property \in {<<"c", "o", "l", "o", "r">>, <<"t", "o", "p">>},
        value \in {<<"r", "e", "d">>, <<"0">>} }

\* What a caller passes as attributes, as Object.entries lists them; a class
\* value here is of non-empty names with one space between them.
AttributeChoices ==
    { <<>>,
      << [key |-> "class", text |-> <<"a", " ", "b">>, entries |-> <<>>],
         [key |-> "id", text |-> <<"x">>, entries |-> <<>>] >>,
      << [key |-> "style", text |-> <<>>,
          entries |-> << <<<<"t", "o", "p">>, <<"0">>>>,
                         <<<<"c", "o", "l", "o", "r">>, <<"r", "e", "d">>>> >>] >>,
      << [key |-> "dataset", text |-> <<>>,
          entries |-> << <<<<"k">>, <<"v">>>> >>] >> }

\* A call about to be made, with its arguments.
Calls ==
    { [ fn |-> "createElement", tagName |-> tagName, attributes |-> attributes,
        children |-> children, entries |-> <<>>, returned |-> <<>>,
        thrown |-> "none", called |-> FALSE ] :
          tagName \in Tags, attributes \in AttributeChoices,
          children \in SeqsUpTo(Children, MaxChildren) }
    \cup
    { [ fn |-> "extractStyle", tagName |-> "", attributes |-> <<>>,
        children |-> <<>>, entries |-> entries, returned |-> <<>>,
        thrown |-> "none", called |-> FALSE ] :
          entries \in SeqsUpTo(StyleEntries, MaxEntries) }

BuilderInit ==
    /\ iter = "hooks"
    /\ containers = [i \in Instances |-> useState(0, NotGiven)]
    /\ setCall = NoCall
    /\ built \in Calls
    /\ step = Astray
    /\ PageLoaded

\* The call of createElement is made.
CallCreateElement ==
    LET out == createElement(built.tagName, built.attributes, built.children)
    IN  /\ built.fn = "createElement"
        /\ ~built.called
        /\ built' = [built EXCEPT !.returned = out.returned,
                                  !.thrown = out.thrown,
                                  !.called = TRUE]
        /\ UNCHANGED pageVars
        /\ UNCHANGED containerVars

\* The call of extractStyle is made.
CallExtractStyle ==
    /\ built.fn = "extractStyle"
    /\ ~built.called
    /\ built' = [built EXCEPT !.returned = <<extractStyle(built.entries)>>,
                              !.called = TRUE]
    /\ UNCHANGED pageVars
    /\ UNCHANGED containerVars

BuilderNext ==
    \/ CallCreateElement
    \/ CallExtractStyle

BuilderSpec == BuilderInit /\ [][BuilderNext]_vars

-----------------------------------------------------------------------------
\* What the properties below speak of.

\* The last user action was a click, and its handler has completed.
Clicked == last.op = "click"

\* The rows a click could name when the last handler started.
RowsBefore == 0..(Len(last.todos) - 1)

\* The last action was a click on the delete control of row i.
DeleteClicked(i) == Clicked /\ last.target = DeleteId(i)

\* The last action was a click on the edit control of row i.
EditClicked(i) == Clicked /\ last.target = EditId(i)

\* The last action was a click on the add/update button.
AddClicked == Clicked /\ last.target = AddId

\* The text the last add/update click submitted, trimmed.
SubmittedText == trim(last.text)

\* An Edit Cursor that is the sentinel or an index of the list.
ValidCursor(ei, ts) == ei = NoEdit \/ (0 <= ei /\ ei < Len(ts))

-----------------------------------------------------------------------------
\* C1: in the edit-capable iterations, whenever a click handler has
\* completed, the Edit Cursor is -1 or an index of the Todo List.
C1_CursorValid ==
    iter \in EditCapable => ValidCursor(editIndex, todos)

\* A delete click on an earlier row has just moved an active cursor.
C1_Witness ==
    /\ iter = "hooks"
    /\ DeleteClicked(0)
    /\ last.editIndex = 2
    /\ editIndex = 1
    /\ Len(todos) = 2

\* C2: in the useState iteration every render reads a cursor that is -1 or
\* an index of the list it reads, also the renders in the middle of a click.
C2_RenderReadsValidCursor ==
    iter = "hooks" =>
        \A k \in DOMAIN renders :
            ValidCursor(renders[k].editIndex, renders[k].todos)

\* C3: in the edit-capable iterations, after an edit click on row i the
\* cursor is i and the attached input field holds the text of item i.
C3_EditFillsInput ==
    iter \in EditCapable =>
        \A i \in RowsBefore :
            EditClicked(i) =>
                /\ editIndex = i
                /\ inputValue = Item(todos, i)

\* C4: in every iteration a delete click on row i removes exactly the item
\* that was at i: one item fewer, the items before i as they were, each
\* later item one place earlier.
C4_DeleteRemovesRow ==
    \A i \in RowsBefore :
        DeleteClicked(i) =>
            /\ Len(todos) = Len(last.todos) - 1
            /\ \A k \in 0..(i - 1) : Item(todos, k) = Item(last.todos, k)
            /\ \A k \in (i + 1)..(Len(last.todos) - 1) :
                   Item(todos, k - 1) = Item(last.todos, k)

\* A middle row of a three-item list has just been deleted.
C4_Witness ==
    /\ iter = "index"
    /\ DeleteClicked(1)
    /\ Len(last.todos) = 3
    /\ Item(last.todos, 0) # Item(last.todos, 1)
    /\ Item(last.todos, 1) # Item(last.todos, 2)
    /\ Len(todos) = 2

\* C5: in the edit-capable iterations, a delete click on the row the cursor
\* designates leaves the cursor at -1 and the attached input field empty.
C5_DeleteEditedResets ==
    iter \in EditCapable =>
        \A i \in RowsBefore :
            (DeleteClicked(i) /\ last.editIndex = i) =>
                /\ editIndex = NoEdit
                /\ inputValue = <<>>

\* The edited row was deleted while the input field held typed text.
C5_Witness ==
    /\ iter = "state"
    /\ DeleteClicked(1)
    /\ last.editIndex = 1
    /\ last.text # <<>>
    /\ editIndex = NoEdit

\* C6: in the edit-capable iterations, with the cursor at j, a delete click
\* on another row i makes the cursor j-1 when i < j and leaves it j when
\* i > j: it designates the same item as before.
C6_DeleteOtherShifts ==
    iter \in EditCapable =>
        \A i \in RowsBefore :
            (DeleteClicked(i) /\ last.editIndex # NoEdit /\ last.editIndex # i) =>
                /\ i < last.editIndex => editIndex = last.editIndex - 1
                /\ i > last.editIndex => editIndex = last.editIndex
                /\ Item(todos, editIndex) = Item(last.todos, last.editIndex)

\* A row before the edited one was deleted, and the two rows differ.
C6_Witness ==
    /\ iter = "state"
    /\ DeleteClicked(0)
    /\ last.editIndex = 1
    /\ Item(last.todos, 0) # Item(last.todos, 1)
    /\ editIndex = 0

\* C7: in the edit-capable iterations, an add/update click with non-empty
\* trimmed text while the cursor is i replaces item i by the trimmed text,
\* leaves the other items and the length as they were, and sets the cursor
\* to -1.
C7_UpdateReplaces ==
    (iter \in EditCapable /\ AddClicked /\ Truthy(SubmittedText)
        /\ last.editIndex # NoEdit) =>
            /\ Len(todos) = Len(last.todos)
            /\ Item(todos, last.editIndex) = SubmittedText
            /\ \A k \in RowsBefore :
                   k # last.editIndex => Item(todos, k) = Item(last.todos, k)
            /\ editIndex = NoEdit

\* An item was updated with a text that needed trimming and changed it.
C7_Witness ==
    /\ iter = "hooks"
    /\ AddClicked
    /\ last.editIndex = 1
    /\ last.text # SubmittedText
    /\ Truthy(SubmittedText)
    /\ Item(last.todos, 1) # SubmittedText
    /\ Len(todos) = 3

\* C8: in every iteration, from the empty list, N add clicks with non-empty
\* trimmed text leave a list of length N whose k-th item is the k-th
\* submitted trimmed text.
C8_AddsInOrder ==
    submitted # <<Undefined>> =>
        /\ Len(todos) = Len(submitted)
        /\ \A k \in DOMAIN submitted : todos[k] = submitted[k]

\* Three adds, the texts not all alike, the last one needing trimming.
C8_Witness ==
    /\ iter = "index"
    /\ submitted # <<Undefined>>
    /\ Len(submitted) = 3
    /\ submitted[1] # submitted[2]
    /\ last.text # SubmittedText

\* C9: in the edit-capable iterations, an add/update click with empty or
\* whitespace-only text changes neither the Todo List nor the Edit Cursor.
C9_EmptySubmitRejected ==
    (iter \in EditCapable /\ AddClicked /\ ~Truthy(SubmittedText)) =>
            /\ todos = last.todos
            /\ editIndex = last.editIndex

\* A whitespace-only text was submitted while an edit was active.
C9_Witness ==
    /\ iter = "state"
    /\ AddClicked
    /\ last.text = <<" ">>
    /\ last.editIndex = 0
    /\ Len(last.todos) = 2

\* C10: in the add/delete-only iterations, an add click with empty or
\* whitespace-only text appends nothing: the Todo List is unchanged.
C10_EmptyAddRejected ==
    (iter \notin EditCapable /\ AddClicked /\ ~Truthy(SubmittedText)) =>
        todos = last.todos

-----------------------------------------------------------------------------
\* The view attached under #root, when it is the only one.
Shown == dom[1]

\* The number a string of decimal digits denotes.
DigitValue(c) ==
    CASE c = "0" -> 0 [] c = "1" -> 1 [] c = "2" -> 2 [] c = "3" -> 3
      [] c = "4" -> 4 [] c = "5" -> 5 [] c = "6" -> 6 [] c = "7" -> 7
      [] c = "8" -> 8 [] c = "9" -> 9

RECURSIVE ParseNumber(_)
ParseNumber(digits) ==
    IF Len(digits) = 1 THEN DigitValue(digits[1])
    ELSE 10 * ParseNumber(SubSeq(digits, 1, Len(digits) - 1))
         + DigitValue(digits[Len(digits)])

\* The text of the placeholder row.
PlaceholderText == "No todos available. Add a new todo!"

\* C11: in every iteration, after every click handler the mount point shows
\* one row per Todo Item in list order, row k with the text of item k and
\* the identities todo-k and delete-todo-k (and edit-todo-k where there is
\* an edit control); in the useState iteration the statistics value is the
\* list length.
C11_RowsMatchList ==
    /\ Len(dom) = 1
    /\ Len(Shown.rows) = Len(todos)
    /\ \A k \in 0..(Len(todos) - 1) :
           /\ Shown.rows[k + 1].span.text = todos[k + 1]
           /\ Shown.rows[k + 1].span.id = <<"todo", k>>
           /\ Shown.rows[k + 1].delete = <<"delete-todo", k>>
           /\ iter \in EditCapable => Shown.rows[k + 1].edit = <<"edit-todo", k>>
    /\ iter = "hooks" => ParseNumber(Shown.stats) = Len(todos)

\* A delete click has just renumbered two unlike rows.
C11_Witness ==
    /\ iter = "hooks"
    /\ DeleteClicked(0)
    /\ Len(todos) = 2
    /\ todos[1] # todos[2]
    /\ Shown.rows[1].span.text = Item(last.todos, 1)

\* C12: in the iterations of part_001 and part_002, the view of an empty
\* Todo List has exactly one placeholder row and no delete or edit control,
\* and the view of a non-empty list has no placeholder row.
C12_PlaceholderIffEmpty ==
    iter \in {"first", "state", "hooks"} =>
        /\ Len(todos) = 0 =>
               /\ Shown.empty = <<PlaceholderText>>
               /\ Shown.rows = <<>>
        /\ Len(todos) > 0 => Shown.empty = <<>>

\* The last item has just been deleted.
C12_Witness ==
    /\ iter = "first"
    /\ DeleteClicked(0)
    /\ Len(last.todos) = 1
    /\ todos = <<>>

\* C13: in src/src/index.js, the view of an empty Todo List has exactly one
\* placeholder row in its list section.
C13_IndexPlaceholder ==
    (iter = "index" /\ Len(todos) = 0) => Len(Shown.empty) = 1

-----------------------------------------------------------------------------
\* C18: in every iteration, a click whose target identity is neither
\* add-todo-button nor delete-todo-k or edit-todo-k for a current index k
\* changes nothing: the Todo List, the Edit Cursor and the input field's
\* text are as before.
C18_UnmatchedNoOp ==
    ( /\ Clicked
      /\ last.target # <<"add-todo-button">>
      /\ \A k \in RowsBefore :
             /\ last.target # <<"delete-todo", k>>
             /\ last.target # <<"edit-todo", k>> ) =>
        /\ todos = last.todos
        /\ editIndex = last.editIndex
        /\ inputValue = last.text

\* The text of a row was clicked while an edit was active and text typed.
C18_Witness ==
    /\ iter = "hooks"
    /\ Clicked
    /\ last.target = <<"todo", 1>>
    /\ last.editIndex = 0
    /\ Truthy(SubmittedText)
    /\ inputValue = last.text

\* C19: render is idempotent.  Rendering twice with the state unchanged
\* leaves under #root the same single view after the second render as after
\* the first; and when a handler re-renders a state that the previous
\* render already showed, #root's content is what it was.
C19_RenderIdempotent ==
    /\ LET once  == Render(iter, Start)
           twice == Render(iter, once)
       IN  /\ twice.dom = once.dom
           /\ Len(twice.dom) = 1
    /\ (Clicked /\ renders # <<>> /\ todos = last.todos
        /\ editIndex = last.editIndex) => dom = last.dom

\* An edit click on the row already being edited re-rendered the same state.
C19_Witness ==
    /\ iter = "hooks"
    /\ EditClicked(1)
    /\ last.editIndex = 1
    /\ Len(renders) = 1
    /\ Len(todos) = 2
    /\ dom = last.dom

\* C20: in the edit-capable iterations, after every click handler the
\* action button reads 'Update Todo' and the input placeholder 'Edit your
\* todo...' exactly when the Edit Cursor is not -1; otherwise they read
\* 'Add Todo' and 'Add a new todo...'.
C20_LabelsFollowCursor ==
    iter \in EditCapable =>
        /\ editIndex # -1 =>
               /\ Shown.button.text = "Update Todo"
               /\ Shown.input.placeholder = "Edit your todo..."
        /\ editIndex = -1 =>
               /\ Shown.button.text = "Add Todo"
               /\ Shown.input.placeholder = "Add a new todo..."

\* The edited row has just been deleted: the labels are back to adding.
C20_Witness ==
    /\ iter = "state"
    /\ DeleteClicked(0)
    /\ last.editIndex = 0
    /\ last.dom[1].button.text = "Update Todo"
    /\ Shown.button.text = "Add Todo"

-----------------------------------------------------------------------------
\* The State Container's properties, under ContainerSpec.

\* A setter call has just completed.
SetCalled == setCall.op = "set"

\* The value the last setter call was to store.
ToStore ==
    IF setCall.newVal.type = "function"
    THEN setCall.newVal.call[setCall.before[setCall.id].value]
    ELSE setCall.newVal.val

\* The last setter call was on a container built with a callable renderFn.
HasCallback == setCall.before[setCall.id].renderFn.type = "function"

\* C14: the setter stores f(current value) when its argument is a function
\* f and the argument itself otherwise, and the getter returns that value.
C14_SetterStores ==
    SetCalled => getState(containers, setCall.id) = ToStore

\* A function argument has just changed a value that was not the initial one.
C14_Witness ==
    /\ SetCalled
    /\ setCall.newVal.type = "function"
    /\ setCall.before[setCall.id].value # setCall.before[setCall.id].initialVal
    /\ getState(containers, setCall.id) # setCall.before[setCall.id].value
    /\ getState(containers, setCall.id) # 0

C16_InstancesIndependent ==
    SetCalled =>
        \A other \in Instances \ {setCall.id} :
            getState(containers, other) = getState(setCall.before, other)

\* One instance was set to a new value unlike the other instance's.
C16_Witness ==
    /\ SetCalled
    /\ setCall.id = "a"
    /\ getState(containers, "a") # getState(setCall.before, "a")
    /\ getState(containers, "a") # getState(containers, "b")

\* C17: on a container built without a callback, or with one that is no
\* function, a setter call stores the new value and raises no error; it
\* prints one warning and invokes nothing.
C17_NoCallbackWarns ==
    (SetCalled /\ ~HasCallback) =>
        /\ getState(containers, setCall.id) = ToStore
        /\ ~setCall.threw
        /\ setCall.warned = 1
        /\ setCall.calls = <<>>

\* A container built without renderFn has just stored a new value.
C17_Witness ==
    /\ SetCalled
    /\ setCall.before[setCall.id].renderFn = NotGiven
    /\ getState(containers, setCall.id) # setCall.before[setCall.id].value
    /\ setCall.warned = 1

-----------------------------------------------------------------------------
\* Properties of the Scenario, of the page without its mount element, and
\* of the two edit-capable iterations side by side.

\* C21: in the useState iteration the Scenario holds step by step.  After
\* the adds of 'Buy milk' and 'Walk dog' the list is those two and the
\* cursor is -1; after the edit click on row 0 the cursor is 0 and the
\* input field shows 'Buy milk'; after 'Buy bread' is submitted the list is
\* 'Buy bread', 'Walk dog' and the cursor is -1; after the delete click on
\* row 1 the list is 'Buy bread'.
C21_ScenarioHolds ==
    Clicked =>
        /\ step = 2 => todos = <<BuyMilk, WalkDog>> /\ editIndex = NoEdit
        /\ step = 3 => editIndex = 0 /\ inputValue = BuyMilk
        /\ step = 4 => todos = <<BuyBread, WalkDog>> /\ editIndex = NoEdit
        /\ step = 5 => todos = <<BuyBread>>

\* The steps of the Scenario but for the text the input field shows.
ScenarioStateHolds ==
    Clicked =>
        /\ step = 2 => todos = <<BuyMilk, WalkDog>> /\ editIndex = NoEdit
        /\ step = 3 => todos = <<BuyMilk, WalkDog>> /\ editIndex = 0
        /\ step = 4 => todos = <<BuyBread, WalkDog>> /\ editIndex = NoEdit
        /\ step = 5 => todos = <<BuyBread>> /\ editIndex = NoEdit

\* C22: in every iteration, render invoked while #root is absent raises an
\* error and attaches nothing: a render now would, and the click handler
\* that changed the state, and so invoked render, ended with an error and
\* the attached views as they were.
C22_RenderRaisesWithoutRoot ==
    /\ ~root =>
         /\ Render(iter, Start).thrown # "none"
         /\ Render(iter, Start).dom = dom
    /\ (/\ Clicked
        /\ ~last.root
        /\ (todos # last.todos \/ editIndex # last.editIndex)) =>
         /\ last.thrown # "none"
         /\ dom = last.dom

\* src/src/index.js, where render has no test of its own: an add click
\* without #root ended with the TypeError of root.appendChild.
C22_Witness ==
    /\ iter = "index"
    /\ AddClicked
    /\ ~last.root
    /\ last.thrown = "TypeError"
    /\ dom = last.dom

\* C23: in the useState iteration, after a click handler that an error
\* ended (render failed, #root being absent) the Edit Cursor is -1 or an
\* index of the Todo List: the list is not left changed with the cursor not
\* yet reset or adjusted.
C23_AbortKeepsStateConsistent ==
    (iter = "hooks" /\ Clicked /\ last.thrown # "none") =>
        ValidCursor(editIndex, todos)

\* C24: in the edit-capable iterations, after every add/update click the
\* attached input field is empty, whatever the trimmed text was.
C24_AddClearsInput ==
    (iter \in EditCapable /\ AddClicked) => inputValue = <<>>

\* A submit of blanks only: nothing is stored, the field is cleared.
C24_Witness ==
    /\ iter = "hooks"
    /\ AddClicked
    /\ last.text = <<" ">>
    /\ todos = last.todos
    /\ inputValue = <<>>

\* The record the last handler started from.
Before ==
    [ todos |-> last.todos, editIndex |-> last.editIndex, value |-> last.text,
      detached |-> FALSE, dom |-> last.dom, renders |-> <<>>,
      root |-> last.root, thrown |-> "none" ]

\* C27: the useState iteration and the state-object iteration agree.  From
\* the state a click started in, the handler of the other edit-capable
\* iteration ends with the Todo List and the Edit Cursor this one ended
\* with; both start empty with cursor -1, so they agree after every click
\* of any click sequence.
C27_IterationsAgree ==
    (iter \in EditCapable /\ Clicked) =>
        LET other == IF iter = "hooks"
                     THEN ClickState(Before, last.target)
                     ELSE ClickHooks(Before, last.target)
        IN  /\ other.todos = todos
            /\ other.editIndex = editIndex

\* A delete above the edited row, where one iteration filters and
\* decrements through setters and the other splices and decrements in place.
C27_Witness ==
    /\ iter = "hooks"
    /\ DeleteClicked(0)
    /\ last.editIndex = 1
    /\ editIndex = 0
    /\ ClickState(Before, last.target).editIndex = 0

\* C28: in every iteration, after a click handler that invoked render the
\* attached input field is empty: the new view has a new field, and what
\* was typed and not submitted is gone.
C28_RenderEmptiesInput ==
    (Clicked /\ renders # <<>>) => inputValue = <<>>

\* A delete click while the field holds typed text.
C28_Witness ==
    /\ iter = "first"
    /\ DeleteClicked(0)
    /\ last.text # <<>>
    /\ renders # <<>>
    /\ inputValue = <<>>

\* C29: in the edit-capable iterations every stored item is a non-empty
\* text that neither starts nor ends with whitespace.
C29_ItemsTrimmed ==
    iter \in EditCapable =>
        \A k \in DOMAIN todos :
            /\ todos[k] # <<>>
            /\ Head(todos[k]) # " "
            /\ todos[k][Len(todos[k])] # " "

\* An item whose typed text had whitespace to lose.
C29_Witness ==
    /\ iter = "state"
    /\ AddClicked
    /\ last.text = <<" ", "a">>
    /\ todos = Append(last.todos, <<"a">>)

\* C30: in the edit-capable iterations, a cursor that is not -1 becomes -1
\* only by an add/update click with non-empty trimmed text or by a delete
\* click on the row it designates; after any other action it is not -1.
C30_CursorLeavesOnlyBy ==
    (iter \in EditCapable /\ last.op # "load" /\ last.editIndex # NoEdit) =>
        (editIndex = NoEdit =>
            \/ AddClicked /\ Truthy(SubmittedText)
            \/ DeleteClicked(last.editIndex))

\* An edit click on the row being edited: the cursor stays.
C30_Witness ==
    /\ iter \in EditCapable
    /\ last.editIndex # NoEdit
    /\ EditClicked(last.editIndex)
    /\ editIndex = last.editIndex

-----------------------------------------------------------------------------
\* Properties of the builders.

\* createElement has been called.
ElementBuilt == built.fn = "createElement" /\ built.called

\* Every child passed is a string or a node.
ChildrenAccepted ==
    \A k \in DOMAIN built.children :
        built.children[k].type = "string" \/ IsNode(built.children[k])

\* Every node passed is an element, passed once.
NodesPassedOnce ==
    \A k \in DOMAIN built.children :
        IsNode(built.children[k]) =>
            /\ built.children[k].kind = "element"
            /\ \A j \in DOMAIN built.children :
                   built.children[j] = built.children[k] => j = k

\* Argument by argument: a text leaf for a string, the node for a node.
ChildPerArgument ==
    [k \in DOMAIN built.children |->
        IF built.children[k].type = "string"
        THEN createTextNode(built.children[k].text)
        ELSE built.children[k]]

\* How often the node is among the children of the element returned.
Places(node) ==
    Cardinality({k \in DOMAIN built.returned[1].children :
                    built.returned[1].children[k] = node})

\* C25, as stated: createElement returns a node whose children are, in
\* argument order, a text leaf for every string child and the node itself
\* for every node child; if a child is neither, it raises a TypeError and
\* returns no node.
C25_ChildPerArgument ==
    ElementBuilt =>
        IF ChildrenAccepted
        THEN /\ built.thrown = "none"
             /\ built.returned # <<>>
             /\ built.returned[1].children = ChildPerArgument
        ELSE /\ built.thrown = "TypeError"
             /\ built.returned = <<>>

\* C25, amended: the children are as stated when every node child is an
\* element passed once.  A node passed again has one place among them, and
\* a document fragment none.  If a child is neither a string nor a node,
\* createElement raises a TypeError and returns no node.
C25_ChildPerDistinctArgument ==
    ElementBuilt =>
        IF ChildrenAccepted
        THEN /\ built.thrown = "none"
             /\ built.returned # <<>>
             /\ NodesPassedOnce =>
                  built.returned[1].children = ChildPerArgument
             /\ \A k \in DOMAIN built.children :
                  IsNode(built.children[k]) =>
                      Places(built.children[k]) =
                          IF built.children[k].kind = "fragment" THEN 0 ELSE 1
        ELSE /\ built.thrown = "TypeError"
             /\ built.returned = <<>>

\* A string between two elements, each passed once.
C25_Witness ==
    /\ ElementBuilt
    /\ built.children =
         <<ElementNode("e1"), StringChild(<<"x">>), ElementNode("e2")>>
    /\ built.returned[1].children =
         <<ElementNode("e1"), createTextNode(<<"x">>), ElementNode("e2")>>

\* extractStyle has been called.
StyleExtracted == built.fn = "extractStyle" /\ built.called

\* C26: extractStyle returns the fragments 'property: value' of the pairs,
\* in their order, with one ';' between two fragments and none before the
\* first or after the last; no pairs give the empty string.
C26_StyleJoined ==
    StyleExtracted =>
        LET out == built.returned[1]
            entries == built.entries
        IN  IF entries = <<>>
            THEN out = <<>>
            ELSE /\ Head(out) # ";"
                 /\ out[Len(out)] # ";"
                 /\ Cardinality({k \in DOMAIN out : out[k] = ";"})
                      = Len(entries) - 1
                 /\ Len(split(out, ";")) = Len(entries)
                 /\ \A k \in DOMAIN entries :
                      split(out, ";")[k]
                        = entries[k][1] \o <<":", " ">> \o entries[k][2]

\* Three pairs, so two separators.
C26_Witness ==
    /\ StyleExtracted
    /\ Len(built.entries) = MaxEntries
    /\ built.entries[1] # built.entries[2]
    /\ Cardinality({k \in DOMAIN built.returned[1] : built.returned[1][k] = ";"})
         = MaxEntries - 1
====
